---- MODULE Spec2Model ----
(***************************************************************************)
(* Agentic podcast workflow (director + parallel segment writers) of       *)
(* open_notebook: one create_workflow request, the LangGraph run it        *)
(* starts, the persisted AgenticPodcastWorkflow record and the transcript  *)
(* endpoint reading it.                                                    *)
(*                                                                         *)
(* Optional values (Python None / a value) are modelled as a sequence of   *)
(* length 0 or 1: None == <<>>, Some(v) == <<v>>.                          *)
(***************************************************************************)
EXTENDS Integers, Sequences, FiniteSets, TLC

\* ---------------------------------------------------------------- bounds
\* largest number of segments the director returns in the model
MaxSegments == 2
\* largest number of dialogue lines the writer returns for one segment
MaxTurns == 2

\* ------------------------------------------------------------- constants
None == <<>>
Some(v) == <<v>>
IsNone(x) == x = <<>>
IsSome(x) == x # <<>>
Val(x) == x[1]

\* domain/agentic_podcast.py: the literal types
WorkflowStage == {"director", "writer", "completed", "failed"}
WorkflowStatus == {"pending", "in_progress", "completed", "failed"}
SegmentSize == {"short", "medium", "long"}

\* the exceptions the collaborators raise, by their text str(e)
GenerationErrors == {"generation error"}
StorageErrors == {"storage error"}
\* An exception raised without arguments (a bare TimeoutError()) has text "".
\* The text only matters where str(e) is stored without a prefix, that is
\* for the exceptions that leave the graph run (lines 387-394); elsewhere
\* it is wrapped in an f-string and one text stands for all.
UnwrappedStorageErrors == StorageErrors \cup {""}

\* ---------------------------------------------------------------- state
VARIABLES
    pc,            \* position of the create_workflow call
    db,            \* the persisted workflow record: None before creation
    workflow,      \* create_workflow's local `workflow` (in-memory copy)
    state,         \* the graph state (AgenticPodcastState)
    tasks,         \* the write_segment tasks launched by the fan-out
    exc,           \* the exception being handled or propagated
    result,        \* what create_workflow returned to its caller
    resp,          \* the last response of get_transcript
    directorCalls, \* number of director_agent invocations
    directorFailed,\* director_agent raised in this run
    writerCalls,   \* the writer_agent invocations, in order: segment indices
    request,       \* the request create_workflow received and its lookups
    calc           \* the arguments and the result of a function evaluated
                   \* on its own, outside a create_workflow call

vars == <<pc, db, workflow, state, tasks, exc, result, resp,
          directorCalls, directorFailed, writerCalls, request, calc>>

\* the variables of the create_workflow call
workflowVars == <<pc, db, workflow, state, tasks, exc, result, resp,
                  directorCalls, directorFailed, writerCalls, request>>

\* ----------------------------------------------------- the record store
\* ObjectModel.save: upsert, last write wins for the fields the in-memory
\* copy carries (fields that are None in the copy are not written).
MergeField(old, new) == IF IsNone(new) THEN old ELSE new

SaveRecord(stored, copy) ==
    IF IsNone(stored) THEN copy
    ELSE [current_stage |-> copy.current_stage,
          status |-> copy.status,
          director_output |-> MergeField(Val(stored).director_output, copy.director_output),
          writer_outputs |-> MergeField(Val(stored).writer_outputs, copy.writer_outputs),
          error_message |-> MergeField(Val(stored).error_message, copy.error_message)]

\* ------------------------------------------------ AgenticPodcastWorkflow
\* the record create_workflow constructs: the field defaults
NewWorkflow ==
    [current_stage |-> "director", status |-> "pending",
     director_output |-> None, writer_outputs |-> None, error_message |-> None]

set_director_output(w, output) == [w EXCEPT !.director_output = Some(output)]

set_writer_outputs(w, outputs) == [w EXCEPT !.writer_outputs = Some(outputs)]

get_writer_outputs(w) == IF IsSome(w.writer_outputs) /\ Val(w.writer_outputs) # <<>>
                         THEN Val(w.writer_outputs) ELSE <<>>

\* the in-memory effect of mark_completed, mark_failed and update_stage;
\* each is followed by save() in the actions below
\* a mark_completed that leaves current_stage alone
mark_completed_status_only(w) == [w EXCEPT !.status = "completed"]

mark_completed(w) == [w EXCEPT !.status = "completed", !.current_stage = "completed"]

\* a mark_failed that also empties the outline
mark_failed_clearing_plan(w, error_message) ==
    [w EXCEPT !.status = "failed", !.current_stage = "failed",
              !.error_message = Some(error_message),
              !.director_output = Some(<<>>)]

mark_failed(w, error_message) ==
    [w EXCEPT !.status = "failed", !.current_stage = "failed",
              !.error_message = Some(error_message)]

update_stage(w, stage, status) == [w EXCEPT !.current_stage = stage, !.status = status]

\* sorted(writer_outputs, key=lambda x: x.segment_index): a stable sort
RECURSIVE InsertByIndex(_, _)
InsertByIndex(sorted, x) ==
    IF sorted = <<>> THEN <<x>>
    ELSE IF x.segment_index < Head(sorted).segment_index
         THEN <<x>> \o sorted
         ELSE <<Head(sorted)>> \o InsertByIndex(Tail(sorted), x)

RECURSIVE SortHelper(_, _)
SortHelper(todo, acc) ==
    IF todo = <<>> THEN acc
    ELSE SortHelper(Tail(todo), InsertByIndex(acc, Head(todo)))

\* no sort: the outputs stay in the order they were merged
KeepMergeOrder(outputs) == outputs

SortBySegmentIndex(outputs) == SortHelper(outputs, <<>>)

RECURSIVE ExtendAll(_)
ExtendAll(outputs) ==
    IF outputs = <<>> THEN <<>>
    ELSE Head(outputs).transcript \o ExtendAll(Tail(outputs))

\* a transcript built from the segments in descending order
get_full_transcript_descending(w) ==
    LET sorted_outputs == SortBySegmentIndex(get_writer_outputs(w))
        n == Len(sorted_outputs)
    IN  ExtendAll([i \in 1..n |-> sorted_outputs[n + 1 - i]])

get_full_transcript(w) == ExtendAll(SortBySegmentIndex(get_writer_outputs(w)))

\* ------------------------------------------------------- error messages
\* A message is a sequence of parts; one part is what one f-string or one
\* str(e) produces: its fixed prefix, the segment index it names (-1 when it
\* names none) and the text of the exception.
NoIndex == 0 - 1

\* an error text that does not name the segment
ErrorTextWithoutIndex(prefix, idx, e) ==
    <<[prefix |-> prefix, segment_index |-> NoIndex, cause |-> e]>>

ErrorText(prefix, idx, e) == <<[prefix |-> prefix, segment_index |-> idx, cause |-> e]>>

\* "; ".join(state["errors"])
RECURSIVE JoinErrors(_)
JoinErrors(errors) ==
    IF errors = <<>> THEN <<>> ELSE Head(errors) \o JoinErrors(Tail(errors))

\* ----------------------------------------------------------- the agents
\* the size of the j-th segment of an outline: the sizes cycle through
\* short, medium, long (the outline of Scenario A and its extensions)
SizeAt(j) == IF j % 3 = 1 THEN "short" ELSE IF j % 3 = 2 THEN "medium" ELSE "long"

\* director_agent's successful results: a DirectorOutput with k segments,
\* 0 <= k <= MaxSegments; a segment's name is its position in the outline
Plans ==
    {[j \in 1..k |-> [name |-> j, size |-> SizeAt(j)]] : k \in 0..MaxSegments}

\* writer_agent's successful result for a segment: the WriterOutput built
\* from the n dialogue lines the model returned
TranscriptLines(segment_index, n) ==
    [j \in 1..n |-> [seg |-> segment_index, turn |-> j]]

\* a writer that numbers every output 0 instead of using the index it is given
WriterOutputOwnIndex(segment, segment_index, n) ==
    [segment_index |-> 0,
     segment_name |-> segment.name,
     transcript |-> TranscriptLines(0, n),
     metadata |-> [segment_size |-> segment.size, num_turns |-> n]]

WriterOutput(segment, segment_index, n) ==
    [segment_index |-> segment_index,
     segment_name |-> segment.name,
     transcript |-> TranscriptLines(segment_index, n),
     metadata |-> [segment_size |-> segment.size, num_turns |-> n]]

\* a writer that keeps the first two earlier segments instead of the last two
RecentSegmentsFirstTwo(previous_segments) ==
    SubSeq(previous_segments, 1, IF Len(previous_segments) < 2 THEN Len(previous_segments) ELSE 2)

\* writer_agent, line 52: previous_segments[-2:]
RecentSegments(previous_segments) ==
    SubSeq(previous_segments,
           IF Len(previous_segments) < 2 THEN 1 ELSE Len(previous_segments) - 1,
           Len(previous_segments))

\* writer_agent, lines 53-58: a header line for each recent segment,
\* followed by its dialogue lines
RECURSIVE PrevLines(_)
PrevLines(recent_segments) ==
    IF recent_segments = <<>> THEN <<>>
    ELSE <<[header |-> Head(recent_segments).segment_name]>>
         \o Head(recent_segments).transcript
         \o PrevLines(Tail(recent_segments))

\* writer_agent, lines 49-58: previous_transcript_text, None without
\* previous segments
PreviousTranscriptText(previous_segments) ==
    IF IsSome(previous_segments) /\ Len(Val(previous_segments)) > 0
    THEN Some(PrevLines(RecentSegments(Val(previous_segments))))
    ELSE None

\* a clamp with min and max exchanged
TargetTurnsSwapped(size, min_turns, max_turns) ==
    LET min(a, b) == IF a < b THEN a ELSE b
        max(a, b) == IF a > b THEN a ELSE b
    IN  IF size = "short" THEN max(min(min_turns, 8), 15)
        ELSE IF size = "medium" THEN max(min(min_turns, 15), 25)
        ELSE max(min(min_turns, 20), max_turns)

\* writer_agent, lines 41-47: target_turns
TargetTurns(size, min_turns, max_turns) ==
    LET min(a, b) == IF a < b THEN a ELSE b
        max(a, b) == IF a > b THEN a ELSE b
    IN  IF size = "short" THEN min(max(min_turns, 8), 15)
        ELSE IF size = "medium" THEN min(max(min_turns, 15), 25)
        ELSE min(max(min_turns, 20), max_turns)

\* ------------------------------------------------------------ the graph
\* run_agentic_podcast_workflow's initial_state
InitialState ==
    [director_output |-> None, writer_outputs |-> <<>>,
     current_stage |-> "director", errors |-> <<>>]

\* a fan-out without the guard of line 133: with no outline it still sends
\* one default segment to a writer
TriggerSegmentWritersUnguarded(st) ==
    LET segments == IF IsNone(st.director_output)
                    THEN <<[name |-> 1, size |-> "medium"]>>
                    ELSE Val(st.director_output)
    IN  [j \in 1..Len(segments) |->
            [segment |-> segments[j], segment_index |-> j - 1,
             previous_segments |-> <<>>]]

\* trigger_segment_writers: the Send payloads, one per segment of the plan
TriggerSegmentWriters(st) ==
    IF IsNone(st.director_output) THEN <<>>
    ELSE LET segments == Val(st.director_output)
         IN  [j \in 1..Len(segments) |->
                 [segment |-> segments[j], segment_index |-> j - 1,
                  previous_segments |-> <<>>]]

\* the tasks of the superstep that follows run_director
LaunchTasks(sends) ==
    [j \in 1..Len(sends) |-> [send |-> sends[j], st |-> "sent", context |-> None]]

\* write_segment, lines 187-189 and 199: the previous_segments argument
RECURSIVE FilterBefore(_, _)
FilterBefore(outputs, segment_index) ==
    IF outputs = <<>> THEN <<>>
    ELSE IF Head(outputs).segment_index < segment_index
         THEN <<Head(outputs)>> \o FilterBefore(Tail(outputs), segment_index)
         ELSE FilterBefore(Tail(outputs), segment_index)

\* a write_segment that takes the earlier segments from the graph state
PreviousSegmentsFromState(w, segment_index) ==
    LET previous_segments == FilterBefore(state.writer_outputs, segment_index)
    IN  IF previous_segments # <<>> THEN Some(previous_segments) ELSE None

PreviousSegments(w, segment_index) ==
    LET previous_outputs == IF IsSome(w.writer_outputs) /\ Val(w.writer_outputs) # <<>>
                            THEN get_writer_outputs(w) ELSE <<>>
        previous_segments == FilterBefore(previous_outputs, segment_index)
    IN  IF previous_segments # <<>> THEN Some(previous_segments) ELSE None

\* a commit decision that forgets the error check of line 239
CommitDecisionIgnoringErrors(errors, writer_outputs) ==
    IF writer_outputs = <<>> THEN "failed_empty" ELSE "completed"

\* save_workflow's commit decision, lines 239-258
CommitDecision(errors, writer_outputs) ==
    IF errors # <<>> THEN "failed_errors"
    ELSE IF writer_outputs = <<>> THEN "failed_empty"
    ELSE "completed"

\* save_workflow, lines 236-258: the record it saves for the merged errors
\* and writer_outputs of the graph state
\* a commit that marks the record completed without storing the segments
CommittedRecordWithoutOutputs(stored, errors, writer_outputs) ==
    LET decision == CommitDecision(errors, writer_outputs)
        no_outputs == ErrorText("No writer outputs generated", NoIndex, "")
    IN  IF decision = "failed_errors"
        THEN SaveRecord(stored, mark_failed(Val(stored), JoinErrors(errors)))
        ELSE IF decision = "failed_empty"
        THEN SaveRecord(stored, mark_failed(Val(stored), no_outputs))
        ELSE SaveRecord(stored, mark_completed(Val(stored)))

CommittedRecord(stored, errors, writer_outputs) ==
    LET decision == CommitDecision(errors, writer_outputs)
        no_outputs == ErrorText("No writer outputs generated", NoIndex, "")
    IN  IF decision = "failed_errors"
        THEN SaveRecord(stored, mark_failed(Val(stored), JoinErrors(errors)))
        ELSE IF decision = "failed_empty"
        THEN SaveRecord(stored, mark_failed(Val(stored), no_outputs))
        ELSE SaveRecord(stored,
                 mark_completed(set_writer_outputs(Val(stored),
                     SortBySegmentIndex(writer_outputs))))

\* a join that waits for one task only
SomeTaskDone == \E j \in DOMAIN tasks : tasks[j].st \in {"ok", "failed"}

AllTasksDone == \A j \in DOMAIN tasks : tasks[j].st \in {"ok", "failed"}

\* ------------------------------------------------------- get_transcript
\* a get_transcript without the status check of line 287
GetTranscriptResponseUnguarded(stored) ==
    IF IsNone(stored)
    THEN [code |-> 404, seen |-> "none", transcript |-> <<>>, total_turns |-> 0]
    ELSE [code |-> 200, seen |-> Val(stored).status,
          transcript |-> get_full_transcript(Val(stored)),
          total_turns |-> Len(get_full_transcript(Val(stored)))]

\* AgenticPodcastService.get_transcript on the stored record
GetTranscriptResponse(stored) ==
    IF IsNone(stored)
    THEN [code |-> 404, seen |-> "none", transcript |-> <<>>, total_turns |-> 0]
    ELSE IF Val(stored).status # "completed"
    THEN [code |-> 400, seen |-> Val(stored).status, transcript |-> <<>>, total_turns |-> 0]
    ELSE LET transcript == get_full_transcript(Val(stored))
         IN  [code |-> 200, seen |-> Val(stored).status,
              transcript |-> transcript, total_turns |-> Len(transcript)]

NoResponse == [code |-> 0, seen |-> "none", transcript |-> <<>>, total_turns |-> 0]

\* no function is being evaluated on its own
NoCalc == [op |-> "none"]

\* ---------------------------------------------------------------- Init
Init ==
    /\ pc = "start"
    /\ db = None
    /\ workflow = None
    /\ state = InitialState
    /\ tasks = <<>>
    /\ exc = None
    /\ result = None
    /\ resp = NoResponse
    /\ directorCalls = 0
    /\ directorFailed = FALSE
    /\ writerCalls = <<>>
    /\ request = None
    /\ calc = NoCalc

\* ------------------------------------------------------ create_workflow
\* The request and what the lookups find: is content / notebook_id given,
\* do the episode profile, the speaker profile and the notebook exist.
Requests ==
    [content : BOOLEAN, notebook_id : BOOLEAN,
     episode_profile : BOOLEAN, speaker_profile : BOOLEAN, notebook : BOOLEAN]

\* a _gather_notebook_content that does not check that the notebook exists
GatherNotebookContentUnchecked(req) == 200

\* _gather_notebook_content, lines 75-77: 404 when the notebook is missing
GatherNotebookContent(req) == IF req.notebook THEN 200 ELSE 404

\* a validation that accepts one of content and notebook_id but not both
ValidateRequestExactlyOne(req) ==
    IF ~req.episode_profile THEN 404
    ELSE IF ~req.speaker_profile THEN 404
    ELSE IF req.content /\ req.notebook_id THEN 400
    ELSE IF req.content THEN 200
    ELSE IF req.notebook_id THEN GatherNotebookContent(req)
    ELSE 400

\* create_workflow, lines 149-177: the HTTP status of the validation
ValidateRequest(req) ==
    IF ~req.episode_profile THEN 404
    ELSE IF ~req.speaker_profile THEN 404
    ELSE IF req.content THEN 200
    ELSE IF req.notebook_id THEN GatherNotebookContent(req)
    ELSE 400

Response(code, w) == Some([code |-> code, status |-> w.status, current_stage |-> w.current_stage])

ErrorResponse(code) == Some([code |-> code, status |-> "none", current_stage |-> "none"])

\* what create_workflow has learnt when it stops looking: each lookup is
\* "found", "missing" or, when lines 149-172 never make it, "skipped"
LookedUp(req) ==
    [content |-> req.content,
     notebook_id |-> req.notebook_id,
     episode_profile |-> IF req.episode_profile THEN "found" ELSE "missing",
     speaker_profile |-> IF ~req.episode_profile THEN "skipped"
                         ELSE IF req.speaker_profile THEN "found" ELSE "missing",
     notebook |-> IF ~req.episode_profile \/ ~req.speaker_profile
                     \/ req.content \/ ~req.notebook_id THEN "skipped"
                  ELSE IF req.notebook THEN "found" ELSE "missing"]

\* a create_workflow that saves the record before it validates the request
CreateWorkflowRejectedAfterSave ==
    /\ pc = "start"
    /\ \E req \in Requests :
          /\ ValidateRequest(req) # 200
          /\ result' = ErrorResponse(ValidateRequest(req))
          /\ request' = Some(LookedUp(req))
    /\ db' = Some(SaveRecord(db, NewWorkflow))
    /\ pc' = "done"
    /\ UNCHANGED <<calc, workflow, state, tasks, exc, resp,
                   directorCalls, directorFailed, writerCalls>>

\* lines 147-177: a lookup fails or the request is invalid; nothing is saved
CreateWorkflowRejected ==
    /\ pc = "start"
    /\ \E req \in Requests :
          /\ ValidateRequest(req) # 200
          /\ result' = ErrorResponse(ValidateRequest(req))
          /\ request' = Some(LookedUp(req))
    /\ pc' = "done"
    /\ UNCHANGED <<calc, db, workflow, state, tasks, exc, resp,
                   directorCalls, directorFailed, writerCalls>>

\* lines 187-218 and graphs/agentic_podcast.py 351-375: the record is
\* created and saved, the initial graph state is built, the graph starts
CreateWorkflow ==
    /\ pc = "start"
    /\ \E req \in Requests :
          /\ ValidateRequest(req) = 200
          /\ request' = Some(LookedUp(req))
    /\ workflow' = Some(SaveRecord(db, NewWorkflow))
    /\ db' = Some(SaveRecord(db, NewWorkflow))
    /\ state' = InitialState
    /\ pc' = "run_director"
    /\ UNCHANGED <<calc, tasks, exc, result, resp, directorCalls, directorFailed, writerCalls>>

\* --------------------------------------------------------- run_director
\* lines 78-82: get the record, update_stage("director", "in_progress"),
\* call director_agent
RunDirectorStart ==
    /\ pc = "run_director"
    /\ db' = Some(SaveRecord(db, update_stage(Val(db), "director", "in_progress")))
    /\ directorCalls' = directorCalls + 1
    /\ pc' = "director_agent"
    /\ UNCHANGED <<calc, request, workflow, state, tasks, exc, result, resp, directorFailed, writerCalls>>

\* what run_director's return value does to the graph: the update is
\* merged into the state, trigger_segment_writers is evaluated on it and
\* the Sends become tasks; with no Send the graph run ends
AfterRunDirector(update) ==
    /\ state' = update
    /\ tasks' = LaunchTasks(TriggerSegmentWriters(update))
    /\ pc' = IF TriggerSegmentWriters(update) = <<>> THEN "after_invoke" ELSE "writers"

\* lines 82-101: director_agent returns an outline, it is saved; the
\* `workflow` object of line 78 equals the stored record here, nothing else
\* wrote since its save at line 79
DirectorSucceeds ==
    /\ pc = "director_agent"
    /\ \E director_output \in Plans :
          /\ db' = Some(SaveRecord(db, set_director_output(Val(db), director_output)))
          /\ AfterRunDirector([state EXCEPT !.director_output = Some(director_output),
                                            !.current_stage = "writer"])
    /\ UNCHANGED <<calc, request, workflow, exc, result, resp, directorCalls, directorFailed, writerCalls>>

\* a run_director without its try/except: director_agent's exception leaves
\* the graph
DirectorFailsEscapes ==
    /\ pc = "director_agent"
    /\ \E e \in GenerationErrors : exc' = Some(e)
    /\ directorFailed' = TRUE
    /\ pc' = "run_except"
    /\ UNCHANGED <<calc, request, db, workflow, state, tasks, result, resp, directorCalls, writerCalls>>

\* lines 82 and 103-106: director_agent raises
DirectorFails ==
    /\ pc = "director_agent"
    /\ \E e \in GenerationErrors : exc' = Some(e)
    /\ directorFailed' = TRUE
    /\ pc' = "rd_except"
    /\ UNCHANGED <<calc, request, db, workflow, state, tasks, result, resp, directorCalls, writerCalls>>

\* lines 103-115: the handler gets the record again and marks it failed
RunDirectorExcept ==
    /\ pc = "rd_except"
    /\ LET error_msg == ErrorText("Director agent failed", NoIndex, Val(exc))
       IN  /\ db' = Some(SaveRecord(db, mark_failed(Val(db), error_msg)))
           /\ AfterRunDirector([state EXCEPT !.errors = state.errors \o <<error_msg>>,
                                             !.current_stage = "failed"])
    /\ exc' = None
    /\ UNCHANGED <<calc, request, workflow, result, resp, directorCalls, directorFailed, writerCalls>>

\* -------------------------------------------------------- write_segment
\* lines 184-201: the task gets the record, builds previous_segments and
\* calls writer_agent
WriteSegmentStart(j) ==
    /\ pc = "writers"
    /\ tasks[j].st = "sent"
    /\ tasks' = [tasks EXCEPT ![j].st = "running",
                              ![j].context = PreviousSegments(Val(db), tasks[j].send.segment_index)]
    /\ writerCalls' = Append(writerCalls, tasks[j].send.segment_index)
    /\ UNCHANGED <<calc, request, pc, db, workflow, state, exc, result, resp, directorCalls, directorFailed>>

\* a write_segment that also saves its output into the record
WriteSegmentSucceedsAndSaves(j) ==
    /\ pc = "writers"
    /\ tasks[j].st = "running"
    /\ \E n \in 0..MaxTurns :
          LET output == WriterOutput(tasks[j].send.segment, tasks[j].send.segment_index, n)
          IN  /\ state' = [state EXCEPT !.writer_outputs = state.writer_outputs \o <<output>>]
              /\ db' = Some(SaveRecord(db, set_writer_outputs(Val(db),
                                get_writer_outputs(Val(db)) \o <<output>>)))
    /\ tasks' = [tasks EXCEPT ![j].st = "ok"]
    /\ UNCHANGED <<calc, request, pc, workflow, exc, result, resp, directorCalls, directorFailed, writerCalls>>

\* lines 192-209: writer_agent returns; operator.add appends the output
WriteSegmentSucceeds(j) ==
    /\ pc = "writers"
    /\ tasks[j].st = "running"
    /\ \E n \in 0..MaxTurns :
          state' = [state EXCEPT !.writer_outputs =
                       state.writer_outputs \o
                       <<WriterOutput(tasks[j].send.segment, tasks[j].send.segment_index, n)>>]
    /\ tasks' = [tasks EXCEPT ![j].st = "ok"]
    /\ UNCHANGED <<calc, request, pc, db, workflow, exc, result, resp, directorCalls, directorFailed, writerCalls>>

\* a write_segment that starts over when writer_agent raises
WriteSegmentFailsRetry(j) ==
    /\ pc = "writers"
    /\ tasks[j].st = "running"
    /\ tasks' = [tasks EXCEPT ![j].st = "sent"]
    /\ UNCHANGED <<calc, request, pc, db, workflow, state, exc, result, resp,
                   directorCalls, directorFailed, writerCalls>>

\* lines 211-218: writer_agent raises; operator.add appends the error
WriteSegmentFails(j) ==
    /\ pc = "writers"
    /\ tasks[j].st = "running"
    /\ \E e \in GenerationErrors :
          state' = [state EXCEPT !.errors = state.errors \o
                       <<ErrorText("Writer agent failed for segment", tasks[j].send.segment_index, e)>>]
    /\ tasks' = [tasks EXCEPT ![j].st = "failed"]
    /\ UNCHANGED <<calc, request, pc, db, workflow, exc, result, resp, directorCalls, directorFailed, writerCalls>>

\* -------------------------------------------------------- save_workflow
\* lines 235-264, run once every write_segment task has returned
SaveWorkflow ==
    /\ pc = "writers"
    /\ AllTasksDone
    /\ LET decision == CommitDecision(state.errors, state.writer_outputs)
           no_outputs == ErrorText("No writer outputs generated", NoIndex, "")
       IN  /\ db' = Some(CommittedRecord(db, state.errors, state.writer_outputs))
           /\ \/ /\ decision = "failed_errors"
                 /\ state' = [state EXCEPT !.current_stage = "failed"]
              \/ /\ decision = "failed_empty"
                 /\ state' = [state EXCEPT !.current_stage = "failed",
                                           !.errors = state.errors \o <<no_outputs>>]
              \/ /\ decision = "completed"
                 /\ state' = [state EXCEPT !.current_stage = "completed"]
    /\ pc' = "after_invoke"
    /\ UNCHANGED <<calc, request, workflow, tasks, exc, result, resp, directorCalls, directorFailed, writerCalls>>

\* ------------------------------------------ run_agentic_podcast_workflow
\* lines 375-385 and create_workflow 220-230: the record is read back and
\* returned, create_workflow answers with its status
RunReturn ==
    /\ pc = "after_invoke"
    /\ result' = Response(201, Val(db))
    /\ pc' = "done"
    /\ UNCHANGED <<calc, request, db, workflow, state, tasks, exc, resp,
                   directorCalls, directorFailed, writerCalls>>

\* ------------------------------------------------------- get_transcript
GetTranscript ==
    /\ resp' = GetTranscriptResponse(db)
    /\ UNCHANGED <<calc, request, pc, db, workflow, state, tasks, exc, result,
                   directorCalls, directorFailed, writerCalls>>

\* ------------------------------------------------ the reliable-store run
Next ==
    \/ CreateWorkflowRejected
    \/ CreateWorkflow
    \/ RunDirectorStart
    \/ DirectorSucceeds
    \/ DirectorFails
    \/ RunDirectorExcept
    \/ \E j \in DOMAIN tasks : WriteSegmentStart(j)
    \/ \E j \in DOMAIN tasks : WriteSegmentSucceeds(j)
    \/ \E j \in DOMAIN tasks : WriteSegmentFails(j)
    \/ SaveWorkflow
    \/ RunReturn
    \/ GetTranscript

Spec == Init /\ [][Next]_vars

\* The reliable-store run under fair scheduling: an enabled step of the
\* call is eventually taken, every director_agent and writer_agent call
\* returns or raises, every task sent is run (asyncio and the graph's
\* superstep loop, lines 300-313 and 375).
Fairness ==
    /\ WF_vars(CreateWorkflowRejected \/ CreateWorkflow)
    /\ WF_vars(RunDirectorStart)
    /\ WF_vars(DirectorSucceeds \/ DirectorFails)
    /\ WF_vars(RunDirectorExcept)
    /\ \A j \in 1..MaxSegments :
          /\ WF_vars(j \in DOMAIN tasks /\ WriteSegmentStart(j))
          /\ WF_vars(j \in DOMAIN tasks /\ (WriteSegmentSucceeds(j) \/ WriteSegmentFails(j)))
    /\ WF_vars(SaveWorkflow)
    /\ WF_vars(RunReturn)

SpecFair == Init /\ [][Next]_vars /\ Fairness

\* ------------------------------------------- the run with a failing store
\* Each action below is a step above in which a store call (get or save)
\* raises, or a handler that only runs after one did.

\* the store calls of create_workflow 149-198, in order
CreateStoreCalls == {"episode_profile", "speaker_profile", "notebook", "save"}

\* is the store call reached for this request
ReachesStoreCall(req, call) ==
    IF call = "episode_profile" THEN TRUE
    ELSE IF call = "speaker_profile" THEN req.episode_profile
    ELSE IF call = "notebook"
         THEN req.episode_profile /\ req.speaker_profile /\ ~req.content /\ req.notebook_id
    ELSE ValidateRequest(req) = 200

\* what create_workflow has learnt when the store call raises
LookedUpUntil(req, call) ==
    [LookedUp(req) EXCEPT
        !.episode_profile = IF call = "episode_profile" THEN "error" ELSE @,
        !.speaker_profile = IF call = "episode_profile" THEN "skipped"
                            ELSE IF call = "speaker_profile" THEN "error" ELSE @,
        !.notebook = IF call \in {"episode_profile", "speaker_profile"} THEN "skipped"
                     ELSE IF call = "notebook" THEN "error" ELSE @]

\* create_workflow 147-198 and 241-246: a lookup or the first save raises
CreateWorkflowStoreFails ==
    /\ pc = "start"
    /\ \E req \in Requests, call \in CreateStoreCalls, e \in StorageErrors :
          /\ ReachesStoreCall(req, call)
          /\ request' = Some(LookedUpUntil(req, call))
          /\ result' = ErrorResponse(500)
    /\ pc' = "done"
    /\ UNCHANGED <<calc, db, workflow, state, tasks, exc, resp,
                   directorCalls, directorFailed, writerCalls>>

\* run_director 78-79: get or update_stage's save raises
RunDirectorStartStoreFails ==
    /\ pc = "run_director"
    /\ \E e \in StorageErrors : exc' = Some(e)
    /\ pc' = "rd_except"
    /\ UNCHANGED <<calc, request, db, workflow, state, tasks, result, resp,
                   directorCalls, directorFailed, writerCalls>>

\* a run_director that drops the exception of the save and returns the outline
DirectorSucceedsSaveFailsStillReturns ==
    /\ pc = "director_agent"
    /\ \E director_output \in Plans :
          AfterRunDirector([state EXCEPT !.director_output = Some(director_output),
                                         !.current_stage = "writer"])
    /\ UNCHANGED <<calc, request, db, workflow, exc, result, resp,
                   directorCalls, directorFailed, writerCalls>>

\* run_director 82-92: director_agent returned, the save of its output raises
DirectorSucceedsSaveFails ==
    /\ pc = "director_agent"
    /\ \E e \in StorageErrors : exc' = Some(e)
    /\ pc' = "rd_except"
    /\ UNCHANGED <<calc, request, db, workflow, state, tasks, result, resp,
                   directorCalls, directorFailed, writerCalls>>

\* run_director 109-110: the handler's get or save raises; the exception
\* leaves the graph run
RunDirectorExceptStoreFails ==
    /\ pc = "rd_except"
    /\ \E e \in UnwrappedStorageErrors : exc' = Some(e)
    /\ pc' = "run_except"
    /\ UNCHANGED <<calc, request, db, workflow, state, tasks, result, resp,
                   directorCalls, directorFailed, writerCalls>>

\* write_segment 184 and 211-218: the task's get raises inside the try
WriteSegmentGetFails(j) ==
    /\ pc = "writers"
    /\ tasks[j].st = "sent"
    /\ \E e \in StorageErrors :
          state' = [state EXCEPT !.errors = state.errors \o
                       <<ErrorText("Writer agent failed for segment", tasks[j].send.segment_index, e)>>]
    /\ tasks' = [tasks EXCEPT ![j].st = "failed"]
    /\ UNCHANGED <<calc, request, pc, db, workflow, exc, result, resp, directorCalls, directorFailed, writerCalls>>

\* save_workflow 236-258 and 266-269: the get or the save raises
SaveWorkflowStoreFails ==
    /\ pc = "writers"
    /\ AllTasksDone
    /\ \E e \in StorageErrors : exc' = Some(e)
    /\ pc' = "sw_except"
    /\ UNCHANGED <<calc, request, db, workflow, state, tasks, result, resp,
                   directorCalls, directorFailed, writerCalls>>

SaveWorkflowFailedUpdate ==
    [state EXCEPT !.current_stage = "failed",
                  !.errors = state.errors \o
                      <<ErrorText("Failed to save workflow", NoIndex, Val(exc))>>]

\* save_workflow 271-277: the fallback marks the record failed
SaveWorkflowExcept ==
    /\ pc = "sw_except"
    /\ db' = Some(SaveRecord(db, mark_failed(Val(db),
                     ErrorText("Failed to save workflow", NoIndex, Val(exc)))))
    /\ state' = SaveWorkflowFailedUpdate
    /\ exc' = None
    /\ pc' = "after_invoke"
    /\ UNCHANGED <<calc, request, workflow, tasks, result, resp, directorCalls, directorFailed, writerCalls>>

\* save_workflow 271-277: the fallback raises too; it is logged and dropped
SaveWorkflowExceptStoreFails ==
    /\ pc = "sw_except"
    /\ state' = SaveWorkflowFailedUpdate
    /\ exc' = None
    /\ pc' = "after_invoke"
    /\ UNCHANGED <<calc, request, db, workflow, tasks, result, resp, directorCalls, directorFailed, writerCalls>>

\* run_agentic_podcast_workflow 378: the get after the graph run raises
RunReturnGetFails ==
    /\ pc = "after_invoke"
    /\ \E e \in UnwrappedStorageErrors : exc' = Some(e)
    /\ pc' = "run_except"
    /\ UNCHANGED <<calc, request, db, workflow, state, tasks, result, resp,
                   directorCalls, directorFailed, writerCalls>>

\* run_agentic_podcast_workflow 387-398: get, mark_failed(str(e)), raise
RunExcept ==
    /\ pc = "run_except"
    /\ db' = Some(SaveRecord(db, mark_failed(Val(db), ErrorText("", NoIndex, Val(exc)))))
    /\ pc' = "cw_except"
    /\ UNCHANGED <<calc, request, workflow, state, tasks, exc, result, resp,
                   directorCalls, directorFailed, writerCalls>>

\* run_agentic_podcast_workflow 392-398: the get or save raises; raise
RunExceptStoreFails ==
    /\ pc = "run_except"
    /\ pc' = "cw_except"
    /\ UNCHANGED <<calc, request, db, workflow, state, tasks, exc, result, resp,
                   directorCalls, directorFailed, writerCalls>>

\* create_workflow 232-237: mark_failed on the copy made at creation
CreateExcept ==
    /\ pc = "cw_except"
    /\ db' = Some(SaveRecord(db, mark_failed(Val(workflow), ErrorText("", NoIndex, Val(exc)))))
    /\ workflow' = Some(SaveRecord(db, mark_failed(Val(workflow), ErrorText("", NoIndex, Val(exc)))))
    /\ result' = ErrorResponse(500)
    /\ pc' = "done"
    /\ UNCHANGED <<calc, request, state, tasks, exc, resp, directorCalls, directorFailed, writerCalls>>

\* create_workflow 234 and 241-246: that save raises
CreateExceptStoreFails ==
    /\ pc = "cw_except"
    /\ workflow' = Some(mark_failed(Val(workflow), ErrorText("", NoIndex, Val(exc))))
    /\ result' = ErrorResponse(500)
    /\ pc' = "done"
    /\ UNCHANGED <<calc, request, db, state, tasks, exc, resp, directorCalls, directorFailed, writerCalls>>

\* get_transcript 283 and 307-311: the get raises
GetTranscriptStoreFails ==
    /\ resp' = [code |-> 500, seen |-> "none", transcript |-> <<>>, total_turns |-> 0]
    /\ UNCHANGED <<calc, request, pc, db, workflow, state, tasks, exc, result,
                   directorCalls, directorFailed, writerCalls>>

NextStoreFail ==
    \/ Next
    \/ CreateWorkflowStoreFails
    \/ RunDirectorStartStoreFails
    \/ DirectorSucceedsSaveFails
    \/ RunDirectorExceptStoreFails
    \/ \E j \in DOMAIN tasks : WriteSegmentGetFails(j)
    \/ SaveWorkflowStoreFails
    \/ SaveWorkflowExcept
    \/ SaveWorkflowExceptStoreFails
    \/ RunReturnGetFails
    \/ RunExcept
    \/ RunExceptStoreFails
    \/ CreateExcept
    \/ CreateExceptStoreFails
    \/ GetTranscriptStoreFails

SpecStoreFail == Init /\ [][NextStoreFail]_vars

\* ------------------------------------------- functions on their own
\* The specifications below evaluate one function on arguments drawn from
\* a bounded set; no create_workflow call is in progress.
NoWorkflow ==
    /\ pc = "start"
    /\ db = None
    /\ workflow = None
    /\ state = InitialState
    /\ tasks = <<>>
    /\ exc = None
    /\ result = None
    /\ resp = NoResponse
    /\ directorCalls = 0
    /\ directorFailed = FALSE
    /\ writerCalls = <<>>
    /\ request = None

\* writer_agent's min_turns and max_turns arguments range over 0..MaxTurnsArg
MaxTurnsArg == 32

InitSizing ==
    /\ NoWorkflow
    /\ calc \in [op : {"target_turns"}, size : SegmentSize,
                 min_turns : 0..MaxTurnsArg, max_turns : 0..MaxTurnsArg,
                 out : {None}]

\* writer_agent, lines 41-47
ComputeTargetTurns ==
    /\ calc.op = "target_turns"
    /\ IsNone(calc.out)
    /\ calc' = [calc EXCEPT !.out = Some(TargetTurns(calc.size, calc.min_turns, calc.max_turns))]
    /\ UNCHANGED workflowVars

NextSizing == ComputeTargetTurns

SpecSizing == InitSizing /\ [][NextSizing]_vars

\* what one write_segment task returns: n dialogue lines or an exception
TaskOutcomes ==
    [ok : {TRUE}, n : 0..MaxTurns] \cup [ok : {FALSE}, e : GenerationErrors]

\* the orders in which the results of k tasks can be merged
MergeOrders(k) ==
    {f \in [1..k -> 1..k] : \A a, b \in 1..k : f[a] = f[b] => a = b}

\* AgenticPodcastState, lines 39-45: the operator.add reducers applied to
\* the updates of the tasks, taken in the given order
RECURSIVE MergeResults(_, _, _, _)
MergeResults(st, plan, outcomes, order) ==
    IF order = <<>> THEN st
    ELSE LET j == Head(order)
             update ==
                 IF outcomes[j].ok
                 THEN [st EXCEPT !.writer_outputs =
                          st.writer_outputs \o <<WriterOutput(plan[j], j - 1, outcomes[j].n)>>]
                 ELSE [st EXCEPT !.errors = st.errors \o
                          <<ErrorText("Writer agent failed for segment", j - 1, outcomes[j].e)>>]
         IN  MergeResults(update, plan, outcomes, Tail(order))

\* the record and the graph state when the tasks of a plan start
StoredAfterPlanning(plan) ==
    Some(set_director_output(update_stage(NewWorkflow, "director", "in_progress"), plan))

StateAfterPlanning(plan) ==
    [InitialState EXCEPT !.director_output = Some(plan), !.current_stage = "writer"]

\* the record save_workflow saves when the results are merged in this order
CommitInOrder(plan, outcomes, order) ==
    LET merged == MergeResults(StateAfterPlanning(plan), plan, outcomes, order)
    IN  CommittedRecord(StoredAfterPlanning(plan), merged.errors, merged.writer_outputs)

InitMerge ==
    /\ NoWorkflow
    /\ \E plan \in Plans \ {<<>>} :
          calc \in [op : {"merge"}, plan : {plan},
                    outcomes : [DOMAIN plan -> TaskOutcomes],
                    first : MergeOrders(Len(plan)), second : MergeOrders(Len(plan)),
                    out : {None}]

\* the same outcomes merged and committed in two orders
ComputeCommits ==
    /\ calc.op = "merge"
    /\ IsNone(calc.out)
    /\ calc' = [calc EXCEPT !.out =
                    Some(<<CommitInOrder(calc.plan, calc.outcomes, calc.first),
                           CommitInOrder(calc.plan, calc.outcomes, calc.second)>>)]
    /\ UNCHANGED workflowVars

NextMerge == ComputeCommits

SpecMerge == InitMerge /\ [][NextMerge]_vars

\* the stored writer_outputs of the record a task reads hold at most
\* MaxStored outputs, for segment indices 0..MaxStored
MaxStored == 3

StoredOutputs ==
    {WriterOutput([name |-> i + 1, size |-> SizeAt(i + 1)], i, n) :
        i \in 0..MaxStored, n \in 0..1}

StoredOutputLists ==
    UNION {[1..len -> StoredOutputs] : len \in 0..MaxStored}

InitContext ==
    /\ NoWorkflow
    /\ calc \in [op : {"context"},
                 writer_outputs : {None} \cup {Some(l) : l \in StoredOutputLists},
                 segment_index : 0..MaxStored,
                 out : {None}]

\* write_segment 184-199 and writer_agent 49-58 on a record that holds
\* calc.writer_outputs: the context the prompt of the segment gets
ComputeContext ==
    /\ calc.op = "context"
    /\ IsNone(calc.out)
    /\ LET w == [NewWorkflow EXCEPT !.writer_outputs = calc.writer_outputs]
       IN  calc' = [calc EXCEPT !.out =
                       Some(PreviousTranscriptText(PreviousSegments(w, calc.segment_index)))]
    /\ UNCHANGED workflowVars

NextContext == ComputeContext

SpecContext == InitContext /\ [][NextContext]_vars

\* ------------------------------------------- _gather_notebook_content
\* Texts are modelled by their lengths. A source or note is the length of
\* its title (0: no title), the length of its text, and whether
\* Source.get / Note.get returns it.
MaxItems == 2

Items == [title : {0, 3}, text : {0, 4, 8}, loaded : BOOLEAN]

ItemLists(max) == UNION {[1..len -> Items] : len \in 0..max}

\* lines 97 and 117: `getattr(..., "title", None) or "(untitled)"`
TitleLen(item) == IF item.title = 0 THEN 10 ELSE item.title

\* lines 99 and 119: full_text[:max_chars_per_item]
ExcerptLen(item, max_chars_per_item) ==
    IF item.text < max_chars_per_item THEN item.text ELSE max_chars_per_item

\* lines 86-104 and 110-124: one loop over the sources or the notes; acc
\* is the running total, the excerpts taken so far and the number of
\* whitespace characters the text ends with. fixed is the length of the
\* constant part of a block: "\n## Source: " or "\n## Note: ", "\n\n", "\n"
RECURSIVE GatherItems(_, _, _, _, _)
GatherItems(items, fixed, acc, max_chars_total, max_chars_per_item) ==
    IF items = <<>> \/ acc.total >= max_chars_total THEN acc
    ELSE IF ~Head(items).loaded
    THEN GatherItems(Tail(items), fixed, acc, max_chars_total, max_chars_per_item)
    ELSE LET excerpt == ExcerptLen(Head(items), max_chars_per_item)
             block == fixed + TitleLen(Head(items)) + excerpt
         IN  GatherItems(Tail(items), fixed,
                         [total |-> acc.total + block,
                          excerpts |-> Append(acc.excerpts, excerpt),
                          trailing |-> IF excerpt = 0 THEN 3 ELSE 1],
                         max_chars_total, max_chars_per_item)

\* lines 79-132: the length of the returned text and the excerpts in it.
\* parts[0] is "# " name "\n\n" description "\n\n"; strip() removes the
\* whitespace at the end
GatherNotebookText(name, description, sources, notes, max_chars_total, max_chars_per_item) ==
    LET first == [total |-> 2 + name + 2 + description + 2,
                  excerpts |-> <<>>,
                  trailing |-> IF description = 0 THEN 4 ELSE 2]
        after_sources == GatherItems(sources, 15, first, max_chars_total, max_chars_per_item)
        after_notes == GatherItems(notes, 13, after_sources, max_chars_total, max_chars_per_item)
    IN  [length |-> after_notes.total - after_notes.trailing,
         excerpts |-> after_notes.excerpts]

InitContent ==
    /\ NoWorkflow
    /\ calc \in [op : {"gather"}, name : {1}, description : {0, 5},
                 sources : ItemLists(MaxItems), notes : ItemLists(1),
                 max_chars_total : {40, 60}, max_chars_per_item : {4, 6},
                 out : {None}]

ComputeContent ==
    /\ calc.op = "gather"
    /\ IsNone(calc.out)
    /\ calc' = [calc EXCEPT !.out =
                    Some(GatherNotebookText(calc.name, calc.description, calc.sources,
                                            calc.notes, calc.max_chars_total,
                                            calc.max_chars_per_item))]
    /\ UNCHANGED workflowVars

NextContent == ComputeContent

SpecContent == InitContent /\ [][NextContent]_vars

\* ======================================================== properties
\* the persisted (current_stage, status) pair; <<"none", "none">> before
\* the record exists
PersistedPair ==
    IF IsNone(db) THEN <<"none", "none">>
    ELSE <<Val(db).current_stage, Val(db).status>>

PersistedOutputs == IF IsNone(db) THEN None ELSE Val(db).writer_outputs

PersistedPlan == IF IsNone(db) THEN None ELSE Val(db).director_output

NumFailedTasks == Cardinality({j \in DOMAIN tasks : tasks[j].st = "failed"})

\* the join has happened and exactly one of k >= 2 tasks failed
ExactlyOneFailed == Len(tasks) >= 2 /\ AllTasksDone /\ NumFailedTasks = 1

\* C1: when exactly one of k >= 2 write_segment tasks fails, no writer
\* output is stored in the record at the join or at any later point of the
\* run, and once save_workflow has run the record is failed.
C1_AllOrNothing ==
    ExactlyOneFailed =>
        /\ IsNone(PersistedOutputs)
        /\ pc \in {"after_invoke", "done"} => PersistedPair = <<"failed", "failed">>

C1_Witness ==
    /\ ExactlyOneFailed
    /\ pc = "done"
    /\ Len(state.writer_outputs) = Len(tasks) - 1
    /\ PersistedPair = <<"failed", "failed">>

\* C2: the stored writer_outputs are in strictly ascending segment_index
\* order starting at 0, and the transcript built from them never goes back
\* to an earlier segment, whatever the order in which the tasks returned.
C2_TranscriptOrder ==
    IsSome(PersistedOutputs) =>
        LET wo == Val(PersistedOutputs)
            t == get_full_transcript(Val(db))
        IN  /\ \A j \in DOMAIN wo : wo[j].segment_index = j - 1
            /\ \A a, b \in DOMAIN t : a < b => t[a].seg <= t[b].seg
            /\ t = ExtendAll(wo)

\* a committed run whose tasks returned in descending index order
C2_Witness ==
    /\ PersistedPair = <<"completed", "completed">>
    /\ Len(state.writer_outputs) >= 2
    /\ state.writer_outputs[1].segment_index > state.writer_outputs[2].segment_index
    /\ Len(Val(PersistedOutputs)[1].transcript) > 0
    /\ Len(Val(PersistedOutputs)[2].transcript) > 0

\* C3: when director_agent raised, no write_segment task exists and
\* writer_agent has not been called.
C3_PlanningShortCircuit ==
    directorFailed => (tasks = <<>> /\ writerCalls = <<>>)

C3_Witness ==
    directorFailed /\ pc = "done" /\ PersistedPair = <<"failed", "failed">>

\* C4: when create_workflow has returned the record of the run, the stored
\* record is (completed, completed) or (failed, failed).
C4_TerminalOnReturn ==
    (pc = "done" /\ IsSome(result) /\ Val(result).code = 201) =>
        PersistedPair \in {<<"completed", "completed">>, <<"failed", "failed">>}

\* C5: get_transcript answers 200 only for a record it saw completed; for a
\* record it saw pending, in_progress or failed it answers 400 with no lines.
C5_TranscriptGuard ==
    /\ resp.code = 200 => resp.seen = "completed"
    /\ resp.seen \in {"pending", "in_progress", "failed"} =>
          (resp.code = 400 /\ resp.transcript = <<>>)

\* get_transcript refused a failed record that carries writer outputs
C5_Witness ==
    /\ resp.code = 400
    /\ resp.seen = "failed"
    /\ PersistedPair = <<"failed", "failed">>
    /\ IsSome(PersistedOutputs)

\* C6: the persisted pair starts as (director, pending) and changes only
\* along the five listed transitions.
C6_AllowedTransitions ==
    {<<<<"none", "none">>, <<"director", "pending">>>>,
     <<<<"director", "pending">>, <<"director", "in_progress">>>>,
     <<<<"director", "in_progress">>, <<"writer", "in_progress">>>>,
     <<<<"director", "in_progress">>, <<"failed", "failed">>>>,
     <<<<"writer", "in_progress">>, <<"completed", "completed">>>>,
     <<<<"writer", "in_progress">>, <<"failed", "failed">>>>}

C6_StageMachine ==
    [][PersistedPair' # PersistedPair =>
          <<PersistedPair, PersistedPair'>> \in C6_AllowedTransitions]_vars

\* C7: once the outline is stored and the run is still in progress, the
\* stored stage is writer.
C7_WriterStagePersisted ==
    (IsSome(PersistedPlan) /\ PersistedPair[2] = "in_progress") =>
        PersistedPair[1] = "writer"

\* C8: once the stored status is completed or failed, no step changes the
\* stored record.
C8_TerminalAbsorbing ==
    [][(IsSome(db) /\ Val(db).status \in {"completed", "failed"}) => db' = db]_vars

\* C9: a stored record carries writer outputs only while its status is
\* completed.
C9_OutputsOnlyWhenCompleted ==
    IsSome(PersistedOutputs) => PersistedPair[2] = "completed"

\* C10: stored writer outputs hold exactly one entry per segment of the
\* stored outline, each numbered with the position of the segment it was
\* written for; and the record is completed only after every planned
\* segment produced an output and no task reported an error.
C10_OneOutputPerSegment ==
    /\ IsSome(PersistedOutputs) =>
          /\ IsSome(PersistedPlan)
          /\ LET wo == Val(PersistedOutputs)
                 segments == Val(PersistedPlan)
             IN  /\ Len(wo) = Len(segments)
                 /\ {wo[j].segment_index : j \in DOMAIN wo} = 0..(Len(segments) - 1)
                 /\ \A j \in DOMAIN wo :
                       wo[j].segment_name = segments[wo[j].segment_index + 1].name
    /\ PersistedPair[2] = "completed" =>
          /\ IsSome(state.director_output)
          /\ Len(state.writer_outputs) = Len(Val(state.director_output))
          /\ state.errors = <<>>

C10_Witness ==
    /\ PersistedPair = <<"completed", "completed">>
    /\ Len(Val(PersistedOutputs)) >= 2

PersistedError == IF IsNone(db) THEN None ELSE Val(db).error_message

FailedIndices ==
    {tasks[j].send.segment_index : j \in {i \in DOMAIN tasks : tasks[i].st = "failed"}}

TaskIndices == {tasks[j].send.segment_index : j \in DOMAIN tasks}

Count(seq, x) == Cardinality({i \in DOMAIN seq : seq[i] = x})

\* C11: after save_workflow of a run in which m >= 1 tasks failed, the
\* stored error_message has exactly m parts, every part is a writer error,
\* the segment indices the parts name are exactly the indices of the
\* failed tasks, and no writer output is stored.
C11_OneErrorPerFailedTask ==
    (pc \in {"after_invoke", "done"} /\ NumFailedTasks >= 1) =>
        /\ IsSome(PersistedError)
        /\ LET msg == Val(PersistedError)
           IN  /\ Len(msg) = NumFailedTasks
               /\ {msg[i].segment_index : i \in DOMAIN msg} = FailedIndices
               /\ \A i \in DOMAIN msg : msg[i].prefix = "Writer agent failed for segment"
        /\ IsNone(PersistedOutputs)

\* Scenario B: two segments, only segment 1 fails
C11_Witness ==
    /\ pc = "done"
    /\ Len(tasks) = 2
    /\ FailedIndices = {1}
    /\ Val(PersistedError)[1].segment_index = 1

\* C12: save_workflow has run only if every launched task has returned and
\* has called writer_agent; and while the tasks run, whatever the siblings
\* did, a task that was sent can call writer_agent and a task that waits
\* for writer_agent can get its result or its error.
C12_BarrierJoin ==
    /\ (tasks # <<>> /\ pc # "writers") =>
          /\ AllTasksDone
          /\ \A j \in DOMAIN tasks : Count(writerCalls, tasks[j].send.segment_index) >= 1
    /\ pc = "writers" =>
          \A j \in DOMAIN tasks :
             /\ tasks[j].st = "sent" => ENABLED WriteSegmentStart(j)
             /\ tasks[j].st = "running" =>
                   (ENABLED WriteSegmentSucceeds(j) /\ ENABLED WriteSegmentFails(j))

\* a sibling has failed while another task has not yet called writer_agent,
\* or the run ended with one failure and one success
C12_Witness ==
    \/ /\ pc = "writers"
       /\ NumFailedTasks = 1
       /\ \E j \in DOMAIN tasks : tasks[j].st = "sent"
    \/ /\ pc = "done"
       /\ NumFailedTasks = 1
       /\ Len(state.writer_outputs) = 1

\* C13: director_agent is called at most once; the tasks launched are one
\* per segment of the outline, the j-th with index j - 1; writer_agent has
\* been called exactly once for every task that left the "sent" state,
\* failed or not, and never for anything else.
C13_ExactlyOnceFanOut ==
    /\ directorCalls <= 1
    /\ (IsSome(state.director_output) /\ pc \in {"writers", "after_invoke", "done"}) =>
          /\ Len(tasks) = Len(Val(state.director_output))
          /\ \A j \in DOMAIN tasks : tasks[j].send.segment_index = j - 1
    /\ \A j \in DOMAIN tasks :
          Count(writerCalls, tasks[j].send.segment_index) =
             (IF tasks[j].st = "sent" THEN 0 ELSE 1)
    /\ \A i \in DOMAIN writerCalls : writerCalls[i] \in TaskIndices

C13_Witness ==
    /\ pc = "done"
    /\ directorCalls = 1
    /\ Len(tasks) = 2
    /\ NumFailedTasks = 2
    /\ Len(writerCalls) = 2

\* C14: a write_segment task exists, and writer_agent has been called,
\* only if director_agent was called and the outline it returned is stored
\* in the record; so when that save fails nothing is launched.
C14_PlanStoredBeforeWriters ==
    (tasks # <<>> \/ writerCalls # <<>>) =>
        /\ directorCalls = 1
        /\ ~directorFailed
        /\ IsSome(PersistedPlan)
        /\ PersistedPlan = state.director_output

\* director_agent returned, the save of its outline raised, the run ended
C14_Witness ==
    /\ pc = "done"
    /\ directorCalls = 1
    /\ ~directorFailed
    /\ IsNone(PersistedPlan)
    /\ IsSome(PersistedError)
    /\ tasks = <<>>

\* ------------------------------------------------------ the request
NothingTouched ==
    /\ IsNone(db)
    /\ directorCalls = 0
    /\ writerCalls = <<>>
    /\ tasks = <<>>

ProfilesFound(r) == r.episode_profile = "found" /\ r.speaker_profile = "found"

\* C15: a request with neither content nor notebook_id creates no record
\* and calls no agent, and, its profiles being found, is answered with 400.
C15_NeitherContentNorNotebook ==
    (IsSome(request) /\ ~Val(request).content /\ ~Val(request).notebook_id) =>
        /\ NothingTouched
        /\ pc = "done"
        /\ Val(result).code # 201
        /\ ProfilesFound(Val(request)) => Val(result).code = 400

C15_Witness ==
    /\ IsSome(request)
    /\ ~Val(request).content
    /\ ~Val(request).notebook_id
    /\ ProfilesFound(Val(request))
    /\ Val(result).code = 400

C17_NotFoundBeforeState ==
    IsSome(request) =>
        LET r == Val(request)
            missing == \/ r.episode_profile = "missing"
                       \/ r.speaker_profile = "missing"
                       \/ r.notebook = "missing"
        IN  /\ missing => (pc = "done" /\ Val(result).code = 404 /\ NothingTouched)
            /\ (IsSome(result) /\ Val(result).code = 404) => missing

\* the profiles are found, the notebook of a request without content is not
C17_Witness ==
    /\ IsSome(request)
    /\ Val(request).notebook = "missing"
    /\ Val(result).code = 404
    /\ IsNone(db)

\* ----------------------------------------------------- error handling
GenerationFailed == directorFailed \/ NumFailedTasks >= 1

\* C18: when director_agent or a writer_agent call has raised, the run is
\* never in an exception handler outside the graph, and once it is over
\* create_workflow has got a record back (it answers 201) whose status is
\* failed and whose error_message contains the text of the exception.
C18_GenerationFailureCaptured ==
    GenerationFailed =>
        /\ pc \notin {"run_except", "cw_except"}
        /\ pc = "done" =>
              /\ Val(result).code = 201
              /\ Val(result).status = "failed"
              /\ Val(db).status = "failed"
              /\ IsSome(PersistedError)
              /\ \E i \in DOMAIN Val(PersistedError) :
                    Val(PersistedError)[i].cause \in GenerationErrors

C18_Witness ==
    /\ pc = "done"
    /\ directorFailed
    /\ Val(result).code = 201
    /\ Val(db).status = "failed"
    /\ Val(PersistedError)[1].prefix = "Director agent failed"

\* save_workflow's save raised and the fallback mark_failed raised as well:
\* the node recorded the error in the graph state, the record is not failed
SaveFallbackFailed ==
    /\ IsSome(db)
    /\ Val(db).status # "failed"
    /\ \E i \in DOMAIN state.errors : state.errors[i][1].prefix = "Failed to save workflow"

\* C19: when the commit save of save_workflow and the fallback mark_failed
\* have both failed, run_agentic_podcast_workflow raises: create_workflow
\* does not get a record back, so it does not answer 201.
C19_StorageFailureSurfaced ==
    (pc = "done" /\ SaveFallbackFailed) => Val(result).code # 201

IsEmptyText(msg) == \A i \in DOMAIN msg : msg[i].prefix = "" /\ msg[i].cause = ""

\* C20: a stored record whose status is failed has an error_message, and
\* its text is not empty.
C20_FailedHasMessage ==
    (IsSome(db) /\ Val(db).status = "failed") =>
        (IsSome(PersistedError) /\ ~IsEmptyText(Val(PersistedError)))

\* ------------------------------------------------- write-once fields
\* C21: a stored error_message is never written over by a later save, and
\* a record that carries an error_message is failed.
C21_ErrorMessageWrittenOnce ==
    [][/\ IsSome(PersistedError) => PersistedError' = PersistedError
       /\ IsSome(PersistedError') => Val(db').status = "failed"]_vars

\* C22: the outline is stored only after the one call of director_agent
\* returned it, and no later save changes or removes a stored outline.
C22_PlanWrittenOnce ==
    [][/\ IsSome(PersistedPlan) => PersistedPlan' = PersistedPlan
       /\ IsSome(PersistedPlan') =>
             /\ directorCalls' = 1
             /\ ~directorFailed'
             /\ PersistedPlan' = state'.director_output]_vars

\* the outline is stored and create_workflow's handler, whose copy of the
\* record was made before planning, has saved that copy as failed
C22_Witness ==
    /\ pc = "done"
    /\ Val(result).code = 500
    /\ IsSome(PersistedPlan)
    /\ Len(Val(PersistedPlan)) >= 1
    /\ Val(db).status = "failed"
    /\ Val(db).error_message = Val(workflow).error_message

\* ------------------------------------------------------ segment sizing
Lo(size) == IF size = "short" THEN 8 ELSE IF size = "medium" THEN 15 ELSE 20

Hi(size, max_turns) ==
    IF size = "short" THEN 15 ELSE IF size = "medium" THEN 25 ELSE max_turns

\* C23 as stated: for every size, min_turns and max_turns, target_turns
\* lies in [lo, hi] and equals min_turns when min_turns lies in [lo, hi].
C23_TargetTurnsInRange ==
    (calc.op = "target_turns" /\ IsSome(calc.out)) =>
        LET lo == Lo(calc.size)
            hi == Hi(calc.size, calc.max_turns)
            t == Val(calc.out)
        IN  /\ lo <= t /\ t <= hi
            /\ (lo <= calc.min_turns /\ calc.min_turns <= hi) => t = calc.min_turns

\* C23 amended: target_turns is the value of TargetTurns on (size,
\* min_turns, max_turns) alone; when lo <= hi it lies in [lo, hi] and equals
\* min_turns when min_turns lies in [lo, hi]; when hi < lo, which happens
\* only for a long segment with max_turns < 20, it is max_turns.
C23_TargetTurnsClamp ==
    (calc.op = "target_turns" /\ IsSome(calc.out)) =>
        LET lo == Lo(calc.size)
            hi == Hi(calc.size, calc.max_turns)
            t == Val(calc.out)
        IN  /\ lo <= hi =>
                  /\ lo <= t /\ t <= hi
                  /\ (lo <= calc.min_turns /\ calc.min_turns <= hi) => t = calc.min_turns
                  /\ calc.min_turns < lo => t = lo
                  /\ calc.min_turns > hi => t = hi
            /\ hi < lo => (calc.size = "long" /\ calc.max_turns < 20 /\ t = calc.max_turns)

\* a long segment asked for 22 turns of at most 30
C23_Witness ==
    /\ calc.op = "target_turns"
    /\ calc.size = "long"
    /\ calc.min_turns = 22
    /\ calc.max_turns = 30
    /\ calc.out = Some(22)

\* ---------------------------------------------------------- transcript
RECURSIVE SumTurns(_)
SumTurns(outputs) ==
    IF outputs = <<>> THEN 0
    ELSE Len(Head(outputs).transcript) + SumTurns(Tail(outputs))

\* C24: a transcript that get_transcript returned with 200 holds every
\* line of every output the tasks of the run returned, and nothing else;
\* its lines are in ascending segment order and, within a segment, in the
\* order the writer gave them; total_turns is the sum of the line counts.
C24_TranscriptConcatenation ==
    resp.code = 200 =>
        LET t == resp.transcript
            outputs == state.writer_outputs
        IN  /\ resp.total_turns = SumTurns(outputs)
            /\ Len(t) = resp.total_turns
            /\ \A j \in DOMAIN outputs : \A l \in DOMAIN outputs[j].transcript :
                  \E a \in DOMAIN t : t[a] = outputs[j].transcript[l]
            /\ \A a, b \in DOMAIN t :
                  a < b => \/ t[a].seg < t[b].seg
                           \/ (t[a].seg = t[b].seg /\ t[a].turn < t[b].turn)

\* segment 1 returned first with one line, segment 0 second with two
C24_Witness ==
    /\ resp.code = 200
    /\ resp.total_turns = 3
    /\ Len(state.writer_outputs) = 2
    /\ state.writer_outputs[1].segment_index = 1
    /\ Len(state.writer_outputs[1].transcript) = 1
    /\ resp.transcript[3].seg = 1

\* ------------------------------------------------------- merge order
\* C25: the record save_workflow saves for given task outcomes is the same
\* whichever of two orders the results were merged in.
C25_MergeOrderIndependent ==
    (calc.op = "merge" /\ IsSome(calc.out)) => Val(calc.out)[1] = Val(calc.out)[2]

\* --------------------------------------------------- the writing tasks
\* C26: while the tasks run no writer output is stored, and the context a
\* task has passed to writer_agent is None, whatever its index and
\* whatever its siblings have returned.
C26_NoSiblingVisibility ==
    /\ pc = "writers" => IsNone(PersistedOutputs)
    /\ \A j \in DOMAIN tasks : tasks[j].context = None

\* segment 0 has returned its output, segment 1 was started after that
C26_Witness ==
    /\ pc = "writers"
    /\ Len(tasks) = 2
    /\ tasks[1].st = "ok"
    /\ tasks[2].st = "running"
    /\ state.writer_outputs # <<>>
    /\ writerCalls = <<0, 1>>
    /\ tasks[2].context = None

\* C27: a step taken while the tasks run and after which they still run (a
\* task reading the record, returning an output or returning an error)
\* leaves the stored record as it is.
C27_TasksDoNotWrite ==
    [][(pc = "writers" /\ pc' = "writers") => db' = db]_vars

\* all tasks have returned, one with an output and one with an error, and
\* the record is as run_director left it
C27_Witness ==
    /\ pc = "writers"
    /\ AllTasksDone
    /\ NumFailedTasks = 1
    /\ Len(state.writer_outputs) = 1
    /\ PersistedPair = <<"director", "in_progress">>
    /\ IsNone(PersistedOutputs)
    /\ IsNone(PersistedError)

\* -------------------------------------------------------- lost updates
\* C28: a save keeps what the earlier saves of the call stored: a stored
\* outline, stored writer outputs and a stored error_message stay as they
\* are, and a stored terminal status is not replaced.
C28_NoLostUpdates ==
    [][IsSome(db) =>
          /\ \A f \in {"director_output", "writer_outputs", "error_message"} :
                IsSome(Val(db)[f]) => Val(db')[f] = Val(db)[f]
          /\ Val(db).status \in {"completed", "failed"} =>
                Val(db').status = Val(db).status]_vars

\* ------------------------------------------------------ context window
\* C29: the context of segment i is made of the outputs for indices below
\* i only, of the last two of them in the stored order when there are more,
\* each with its header and all its lines; with no such output it is None.
C29_ContextWindow ==
    (calc.op = "context" /\ IsSome(calc.out)) =>
        LET stored == IF IsNone(calc.writer_outputs) THEN <<>> ELSE Val(calc.writer_outputs)
            i == calc.segment_index
            earlier == {p \in DOMAIN stored : stored[p].segment_index < i}
            used == {p \in earlier : Cardinality({q \in earlier : q > p}) < 2}
            ctx == Val(calc.out)
        IN  /\ earlier = {} <=> IsNone(ctx)
            /\ IsSome(ctx) =>
                  LET text == Val(ctx)
                      headers == {a \in DOMAIN text : "header" \in DOMAIN text[a]}
                  IN  /\ Cardinality(headers) = Cardinality(used)
                      /\ Cardinality(headers) <= 2
                      /\ \A a \in headers : \E p \in used : stored[p].segment_name = text[a].header
                      /\ \A a \in DOMAIN text \ headers : text[a].seg < i
                      /\ \A p \in used :
                            /\ \E a \in headers : text[a].header = stored[p].segment_name
                            /\ \A l \in DOMAIN stored[p].transcript :
                                  \E a \in DOMAIN text \ headers : text[a] = stored[p].transcript[l]
                      /\ \A a \in DOMAIN text \ headers :
                            \E p \in used : \E l \in DOMAIN stored[p].transcript :
                               text[a] = stored[p].transcript[l]

\* three stored outputs for segments 0, 1, 2 and one for segment 3; the
\* context of segment 3 starts with the header of segment 1
C29_Witness ==
    /\ calc.op = "context"
    /\ calc.segment_index = 3
    /\ IsSome(calc.writer_outputs)
    /\ Len(Val(calc.writer_outputs)) = 3
    /\ \A p \in 1..3 : Val(calc.writer_outputs)[p].segment_index = p - 1
    /\ IsSome(calc.out)
    /\ IsSome(Val(calc.out))
    /\ Val(Val(calc.out))[1] = [header |-> 2]

\* ------------------------------------------------------ content budget
\* C30: the text _gather_notebook_content returns is at most
\* max_chars_total long and every excerpt in it is at most
\* max_chars_per_item long.
C30_ContentBudget ==
    (calc.op = "gather" /\ IsSome(calc.out)) =>
        /\ Val(calc.out).length <= calc.max_chars_total
        /\ \A a \in DOMAIN Val(calc.out).excerpts :
              Val(calc.out).excerpts[a] <= calc.max_chars_per_item

\* ---------------------------------------------------------- the commit
\* save_workflow has run: the only step that leaves the writing phase
CommitDone == tasks # <<>> /\ pc \in {"after_invoke", "done"}

\* C31: once director_agent has returned an outline to the graph,
\* save_workflow eventually runs.
C31_CommitEventuallyRuns ==
    (IsSome(state.director_output) /\ ~directorFailed) ~> CommitDone

\* C32: in every persisted state current_stage is "completed" exactly
\* when status is "completed", current_stage is "failed" exactly when
\* status is "failed", and status "pending" occurs only with
\* current_stage "director".
C32_StageStatusCoupled ==
    IsSome(db) =>
        /\ (Val(db).current_stage = "completed") <=> (Val(db).status = "completed")
        /\ (Val(db).current_stage = "failed") <=> (Val(db).status = "failed")
        /\ (Val(db).status = "pending") => (Val(db).current_stage = "director")

\* a record that save_workflow marked completed is stored
C32_Witness == pc = "done" /\ PersistedPair = <<"completed", "completed">>

\* C33: every persisted record with status "completed" has an outline, a
\* non-empty list of segment outputs and no error message.
C33_CompletedIsPopulated ==
    (IsSome(db) /\ Val(db).status = "completed") =>
        /\ IsSome(Val(db).director_output)
        /\ IsSome(Val(db).writer_outputs)
        /\ Val(Val(db).writer_outputs) # <<>>
        /\ IsNone(Val(db).error_message)

\* save_workflow has just stored a completed record of two segments
C33_Witness ==
    /\ pc = "after_invoke"
    /\ IsSome(db)
    /\ Val(db).status = "completed"
    /\ IsSome(Val(db).writer_outputs)
    /\ Len(Val(Val(db).writer_outputs)) = 2

\* ============================================== SmolDocling integration
\* number of calls of one run of the model, and pages of a PDF
MaxCalls == 3
MaxPages == 2

\* line 221 of smol_docling_integration.py and line 70 of source.py
SupportedSuffixes == {".pdf", ".png", ".jpg", ".jpeg", ".tiff", ".bmp", ".webp"}

\* str.lower() on the suffixes of Files
Lower(s) == IF s = ".PDF" THEN ".pdf" ELSE s

\* file paths: stem, suffix as written, and whether the file exists
Files ==
    {[stem |-> "doc", suffix |-> ".PDF", exists |-> TRUE],
     [stem |-> "scan", suffix |-> ".png", exists |-> TRUE],
     [stem |-> "notes", suffix |-> ".txt", exists |-> TRUE],
     [stem |-> "missing", suffix |-> ".pdf", exists |-> FALSE]}

\* content_state.get("file_path", "") of a source that is not a file
NoFilePath == [stem |-> "", suffix |-> "", exists |-> FALSE]

\* max_new_tokens: the default of lines 61 and 358, and the value of the
\* test at line 65
TokenLimits == {4096, 8192}

DefaultMaxNewTokens == 8192

\* what the platform offers: CUDA, Apple MPS or neither (lines 97-105)
GpuKinds == {"cuda", "mps", "none"}

\* how one _initialize call ends when it has to load: it completes, an
\* import fails (ImportError), AutoProcessor.from_pretrained raises, or
\* AutoModelForVision2Seq.from_pretrained(...).to(device) raises
InitOutcomes == {"ok", "import_error", "processor_error", "model_error"}

\* how the conversion ends: _convert_sync returns the markdown, an
\* exception inside _convert_sync (caught at line 289), or
\* run_in_executor itself raises (caught at line 241)
ConvertOutcomes == {"ok", "convert_error", "executor_error"}

\* error texts; a text is the sequence of its parts
FileNotFoundText(file) == <<"File not found: ", file.stem, file.suffix>>

UnsupportedFormatText(suffix) ==
    <<"Unsupported file format: ", suffix,
      ". SmolDocling supports PDF and image files.">>

DependenciesText ==
    <<"SmolDocling requires additional dependencies. ",
      "Install with: pip install transformers torch docling-core pillow pdf2image">>

\* str(e) of an exception raised by a library call
ExceptionText(kind) == <<kind>>

\* SmolDoclingResult
SmolDoclingResult(content, title, page_count, success, error_message, doctags) ==
    [content |-> content, title |-> title, page_count |-> page_count,
     success |-> success, error_message |-> error_message, doctags |-> doctags]

FailureResult(text) == SmolDoclingResult("", None, 0, FALSE, Some(text), None)

\* SmolDoclingParser.__init__; id stands for the identity of the object,
\* processor and model for "is not None"
NewParser(id, use_gpu, max_new_tokens) ==
    [id |-> id, use_gpu |-> use_gpu, max_new_tokens |-> max_new_tokens,
     processor |-> FALSE, model |-> FALSE, device |-> "unset",
     initialized |-> FALSE]

DeviceFor(use_gpu, gpu) ==
    IF gpu = "cuda" /\ use_gpu THEN "cuda"
    ELSE IF gpu = "mps" /\ use_gpu THEN "mps"
    ELSE "cpu"

\* an _initialize without the guard of line 89
InitializeAlways(p, outcome, gpu) ==
    IF outcome = "import_error"
    THEN [parser |-> p, raised |-> Some(DependenciesText), loaded |-> FALSE]
    ELSE LET d == DeviceFor(p.use_gpu, gpu)
         IN  IF outcome = "processor_error"
             THEN [parser |-> [p EXCEPT !.device = d],
                   raised |-> Some(ExceptionText("processor_error")), loaded |-> FALSE]
             ELSE IF outcome = "model_error"
             THEN [parser |-> [p EXCEPT !.device = d, !.processor = TRUE],
                   raised |-> Some(ExceptionText("model_error")), loaded |-> FALSE]
             ELSE [parser |-> [p EXCEPT !.device = d, !.processor = TRUE,
                                        !.model = TRUE, !.initialized = TRUE],
                   raised |-> None, loaded |-> TRUE]

\* _initialize: the parser afterwards, the text of the exception it raised
\* if any, and whether this call assigned _model
Initialize(p, outcome, gpu) ==
    IF p.initialized
    THEN [parser |-> p, raised |-> None, loaded |-> FALSE]
    ELSE IF outcome = "import_error"
    THEN [parser |-> p, raised |-> Some(DependenciesText), loaded |-> FALSE]
    ELSE LET d == DeviceFor(p.use_gpu, gpu)
         IN  IF outcome = "processor_error"
             THEN [parser |-> [p EXCEPT !.device = d],
                   raised |-> Some(ExceptionText("processor_error")), loaded |-> FALSE]
             ELSE IF outcome = "model_error"
             THEN [parser |-> [p EXCEPT !.device = d, !.processor = TRUE],
                   raised |-> Some(ExceptionText("model_error")), loaded |-> FALSE]
             ELSE [parser |-> [p EXCEPT !.device = d, !.processor = TRUE,
                                        !.model = TRUE, !.initialized = TRUE],
                   raised |-> None, loaded |-> TRUE]

\* _convert_sync on a supported file: one page for an image, the pages of
\* the PDF otherwise; the markdown of no page is the empty string
ConvertSync(file, suffix, convert, pages) ==
    IF convert = "convert_error"
    THEN FailureResult(ExceptionText("convert_error"))
    ELSE LET page_count == IF suffix = ".pdf" THEN pages ELSE 1
             text == IF page_count = 0 THEN "" ELSE "markdown"
             tags == IF page_count = 0 THEN "" ELSE "doctags"
         IN  SmolDoclingResult(text, Some(file.stem), page_count, TRUE, None, Some(tags))

\* parse_file: the parser afterwards and the SmolDoclingResult returned
ParseFile(p, file, outcome, gpu, convert, pages) ==
    LET init == Initialize(p, outcome, gpu)
        suffix == Lower(file.suffix)
        res == IF IsSome(init.raised)
               THEN FailureResult(Val(init.raised))
               ELSE IF ~file.exists
               THEN FailureResult(FileNotFoundText(file))
               ELSE IF suffix \notin SupportedSuffixes
               THEN FailureResult(UnsupportedFormatText(suffix))
               ELSE IF convert = "executor_error"
               THEN FailureResult(ExceptionText("executor_error"))
               ELSE ConvertSync(file, suffix, convert, pages)
    IN  [parser |-> init.parser, result |-> res, loaded |-> init.loaded,
         init_raised |-> IsSome(init.raised)]

\* a getter that builds a new parser when the arguments differ
get_smol_docling_parser_per_arguments(instance, created, use_gpu, max_new_tokens) ==
    IF \/ IsNone(instance)
       \/ Val(instance).use_gpu # use_gpu
       \/ Val(instance).max_new_tokens # max_new_tokens
    THEN [instance |-> Some(NewParser(created + 1, use_gpu, max_new_tokens)),
          created |-> created + 1]
    ELSE [instance |-> instance, created |-> created]

\* get_smol_docling_parser on the module global _parser_instance; created
\* counts the SmolDoclingParser objects constructed so far
get_smol_docling_parser(instance, created, use_gpu, max_new_tokens) ==
    IF IsNone(instance)
    THEN [instance |-> Some(NewParser(created + 1, use_gpu, max_new_tokens)),
          created |-> created + 1]
    ELSE [instance |-> instance, created |-> created]

\* ContentSettings as content_process reads it; the record built at lines
\* 50-56 when get_instance raises carries the field defaults
DefaultSettings ==
    [document_parser |-> "content_core", smol_docling_enabled |-> FALSE,
     smol_docling_use_gpu |-> TRUE]

SettingsValues ==
    [document_parser : {"content_core", "smol_docling"},
     smol_docling_enabled : BOOLEAN, smol_docling_use_gpu : BOOLEAN]

\* lines 61-64
UseSmolDocling(settings) ==
    settings.document_parser = "smol_docling" \/ settings.smol_docling_enabled

\* lines 67-71
IsPdfOrImage(file) == file # NoFilePath /\ Lower(file.suffix) \in SupportedSuffixes

\* the inputs a call consults: _initialize draws on the platform only
\* while the parser is not initialized, the conversion runs only for an
\* existing file of a supported format after a successful _initialize
InitEnvs(p) ==
    IF p.initialized THEN {[outcome |-> "ok", gpu |-> "none"]}
    ELSE [outcome : InitOutcomes, gpu : GpuKinds]

ConvertEnvs(p, file, ie) ==
    IF /\ IsNone(Initialize(p, ie.outcome, ie.gpu).raised)
       /\ file.exists
       /\ Lower(file.suffix) \in SupportedSuffixes
    THEN [convert : ConvertOutcomes,
          pages : IF Lower(file.suffix) = ".pdf" THEN 0..MaxPages ELSE {1}]
    ELSE [convert : {"ok"}, pages : {0}]

\* the rest of content_process: ProcessSourceState(**content_state) is
\* built or raises (line 93), the speech-to-text defaults are found or not
\* (lines 112-123), extract_content returns or raises (line 125)
RestEnvs == [build_ok : BOOLEAN, audio : BOOLEAN, extract_ok : BOOLEAN]

\* what content_process did: whether the SmolDocling branch was entered,
\* the parse_file call made there, whether the handler of line 97 caught an
\* exception, the number of extract_content calls, and the content_state
\* returned (None when extract_content raised)
Outcome(instance, created, selected, parse, caught, extract_calls, out) ==
    [instance |-> instance, created |-> created, selected |-> selected,
     parse |-> parse, caught |-> caught, extract_calls |-> extract_calls,
     out |-> out]

\* lines 102-126
ExtractContent(settings, rest) ==
    IF rest.extract_ok
    THEN Some([extracted_by |-> "content_core", content |-> "extracted",
               title |-> None, source_type |-> "unset", audio |-> rest.audio])
    ELSE None

\* lines 85-93
SmolDoclingState(file, res) ==
    Some([extracted_by |-> "smol_docling", content |-> res.content,
          title |-> res.title,
          source_type |-> IF Lower(file.suffix) = ".pdf" THEN "pdf" ELSE "image",
          audio |-> FALSE])

\* a content_process that returns whatever parse_file produced
ContentProcessWithoutFallback(instance, created, settings, file, available, ie, ce, rest) ==
    IF UseSmolDocling(settings) /\ IsPdfOrImage(file) /\ available
    THEN LET got == get_smol_docling_parser(instance, created,
                        settings.smol_docling_use_gpu, DefaultMaxNewTokens)
             parse == ParseFile(Val(got.instance), file, ie.outcome, ie.gpu,
                                ce.convert, ce.pages)
         IN  Outcome(Some(parse.parser), got.created, TRUE, Some(parse), FALSE, 0,
                     SmolDoclingState(file, parse.result))
    ELSE Outcome(instance, created, FALSE, None, FALSE, 1, ExtractContent(settings, rest))

\* content_process (lines 38-126)
ContentProcess(instance, created, settings, file, available, ie, ce, rest) ==
    IF UseSmolDocling(settings) /\ IsPdfOrImage(file) /\ available
    THEN LET got == get_smol_docling_parser(instance, created,
                        settings.smol_docling_use_gpu, DefaultMaxNewTokens)
             parse == ParseFile(Val(got.instance), file, ie.outcome, ie.gpu,
                                ce.convert, ce.pages)
         IN  IF parse.result.success /\ rest.build_ok
             THEN Outcome(Some(parse.parser), got.created, TRUE, Some(parse), FALSE, 0,
                          SmolDoclingState(file, parse.result))
             ELSE Outcome(Some(parse.parser), got.created, TRUE, Some(parse),
                          parse.result.success, 1, ExtractContent(settings, rest))
    ELSE Outcome(instance, created, FALSE, None, FALSE, 1, ExtractContent(settings, rest))

\* ------------------------------------------ the calls of the integration
\* the call that has just returned: its arguments, the identity of the
\* parser the getter returned, the parser as parse_file found it, what
\* parse_file did, and what content_process saw and did
NoCall ==
    [op |-> "none", file |-> NoFilePath, args |-> None, returned |-> None,
     before |-> None, parse |-> None, use_smol_docling |-> FALSE,
     available |-> FALSE, selected |-> FALSE, caught |-> FALSE,
     extract_calls |-> 0, out |-> None]

\* the module after import: no parser yet (line 355); parse_calls, loads
\* and inits_ok count the parse_file calls, the assignments of _model and
\* the _initialize calls that returned
InitDocling ==
    /\ NoWorkflow
    /\ calc = [op |-> "docling", parser_instance |-> None, created |-> 0,
               first |-> None, calls |-> 0, parse_calls |-> 0, loads |-> 0,
               inits_ok |-> 0, last |-> NoCall]

AfterGet(c, got) ==
    [c EXCEPT !.parser_instance = got.instance,
              !.created = got.created,
              !.calls = @ + 1,
              !.first = IF IsNone(@) THEN Some(Val(got.instance).id) ELSE @]

AfterParse(c, parse) ==
    [c EXCEPT !.parser_instance = Some(parse.parser),
              !.parse_calls = @ + 1,
              !.loads = IF parse.loaded THEN @ + 1 ELSE @,
              !.inits_ok = IF parse.init_raised THEN @ ELSE @ + 1]

\* get_smol_docling_parser(use_gpu, max_new_tokens)
GetSmolDoclingParser ==
    /\ calc.op = "docling"
    /\ calc.last.op = "none"
    /\ calc.calls < MaxCalls
    /\ \E use_gpu \in BOOLEAN, max_new_tokens \in TokenLimits :
         LET got == get_smol_docling_parser(calc.parser_instance, calc.created,
                                            use_gpu, max_new_tokens)
         IN  calc' = [AfterGet(calc, got) EXCEPT
                         !.last = [NoCall EXCEPT
                                      !.op = "get",
                                      !.args = Some(<<use_gpu, max_new_tokens>>),
                                      !.returned = Some(Val(got.instance).id)]]
    /\ UNCHANGED workflowVars

\* convert_pdf_to_markdown(file_path, use_gpu): the getter, then parse_file
ConvertPdfToMarkdown ==
    /\ calc.op = "docling"
    /\ calc.last.op = "none"
    /\ calc.calls < MaxCalls
    /\ \E file \in Files, use_gpu \in BOOLEAN :
         LET got == get_smol_docling_parser(calc.parser_instance, calc.created,
                                            use_gpu, DefaultMaxNewTokens)
             p == Val(got.instance)
         IN  \E ie \in InitEnvs(p) : \E ce \in ConvertEnvs(p, file, ie) :
               LET parse == ParseFile(p, file, ie.outcome, ie.gpu, ce.convert, ce.pages)
               IN  calc' = [AfterParse(AfterGet(calc, got), parse) EXCEPT
                               !.last = [NoCall EXCEPT
                                            !.op = "convert",
                                            !.file = file,
                                            !.args = Some(<<use_gpu, DefaultMaxNewTokens>>),
                                            !.returned = Some(p.id),
                                            !.before = Some(p),
                                            !.parse = Some(parse)]]
    /\ UNCHANGED workflowVars

\* content_process on a source with the given file path
ContentProcessCall ==
    /\ calc.op = "docling"
    /\ calc.last.op = "none"
    /\ calc.calls < MaxCalls
    /\ \E loaded \in SettingsValues \cup {None}, file \in Files \cup {NoFilePath},
          available \in BOOLEAN, rest \in RestEnvs :
         LET settings == IF loaded = None THEN DefaultSettings ELSE loaded
             got == get_smol_docling_parser(calc.parser_instance, calc.created,
                                            settings.smol_docling_use_gpu,
                                            DefaultMaxNewTokens)
             p == Val(got.instance)
             selected == UseSmolDocling(settings) /\ IsPdfOrImage(file) /\ available
         IN  IF selected
             THEN \E ie \in InitEnvs(p) : \E ce \in ConvertEnvs(p, file, ie) :
                    LET o == ContentProcess(calc.parser_instance, calc.created,
                                            settings, file, available, ie, ce, rest)
                    IN  calc' = [AfterParse(AfterGet(calc, got), Val(o.parse)) EXCEPT
                                    !.last = [NoCall EXCEPT
                                                 !.op = "content_process",
                                                 !.file = file,
                                                 !.args = Some(<<settings.smol_docling_use_gpu,
                                                                 DefaultMaxNewTokens>>),
                                                 !.returned = Some(p.id),
                                                 !.before = Some(p),
                                                 !.parse = o.parse,
                                                 !.use_smol_docling = TRUE,
                                                 !.available = TRUE,
                                                 !.selected = TRUE,
                                                 !.caught = o.caught,
                                                 !.extract_calls = o.extract_calls,
                                                 !.out = o.out]]
             ELSE LET o == ContentProcess(calc.parser_instance, calc.created,
                                          settings, file, available,
                                          [outcome |-> "ok", gpu |-> "none"],
                                          [convert |-> "ok", pages |-> 0], rest)
                  IN  calc' = [calc EXCEPT
                                  !.calls = @ + 1,
                                  !.last = [NoCall EXCEPT
                                               !.op = "content_process",
                                               !.file = file,
                                               !.use_smol_docling = UseSmolDocling(settings),
                                               !.available = available,
                                               !.extract_calls = o.extract_calls,
                                               !.out = o.out]]
    /\ UNCHANGED workflowVars

\* the caller has taken the value the last call returned
ReturnToCaller ==
    /\ calc.op = "docling"
    /\ calc.last.op # "none"
    /\ calc' = [calc EXCEPT !.last = NoCall]
    /\ UNCHANGED workflowVars

NextDocling ==
    \/ GetSmolDoclingParser
    \/ ConvertPdfToMarkdown
    \/ ContentProcessCall
    \/ ReturnToCaller

SpecDocling == InitDocling /\ [][NextDocling]_vars

\* ------------------------------------------- SmolDocling: properties
\* `phrase in text.lower()` for the literal parts the code writes; file
\* names and exception texts of Files and ExceptionText hold neither phrase
PhrasesOf(part) ==
    IF part = "File not found: " THEN {"not found"}
    ELSE IF part = "Unsupported file format: " THEN {"unsupported"}
    ELSE {}

ContainsLower(text, phrase) == \E i \in DOMAIN text : phrase \in PhrasesOf(text[i])

\* a parse_file call has just returned
Parsed == calc.op = "docling" /\ IsSome(calc.last.parse)

LastResult == Val(calc.last.parse).result

\* C34: parse_file returns success = False with a "not found" message for
\* a path that does not exist, success = False with an "unsupported"
\* message for an existing file of an unsupported format, and
\* success = False with empty content when initialization or conversion
\* raised.
C34_ParseFileReportsFailures ==
    Parsed =>
        /\ ~calc.last.file.exists =>
              /\ ~LastResult.success
              /\ IsSome(LastResult.error_message)
              /\ ContainsLower(Val(LastResult.error_message), "not found")
        /\ (calc.last.file.exists
              /\ Lower(calc.last.file.suffix) \notin SupportedSuffixes) =>
              /\ ~LastResult.success
              /\ IsSome(LastResult.error_message)
              /\ ContainsLower(Val(LastResult.error_message), "unsupported")
        /\ Val(calc.last.parse).init_raised =>
              /\ ~LastResult.success
              /\ LastResult.content = ""

\* C35: every call of get_smol_docling_parser returns the instance the
\* first call created, which keeps the arguments of that call, and at most
\* one instance is ever created.
C35_SingletonGetter ==
    (calc.op = "docling" /\ IsSome(calc.last.returned)) =>
        /\ calc.last.returned = calc.first
        /\ Val(calc.parser_instance).id = Val(calc.first)
        /\ calc.created = 1

\* a later call with other arguments got the first instance back
C35_Witness ==
    /\ calc.op = "docling"
    /\ calc.last.op = "get"
    /\ calc.calls = MaxCalls
    /\ calc.last.returned = calc.first
    /\ Val(calc.last.args) # <<Val(calc.parser_instance).use_gpu,
                               Val(calc.parser_instance).max_new_tokens>>

\* SmolDocling did not produce a result for the last content_process call
NoSmolDoclingResult ==
    \/ calc.last.use_smol_docling /\ ~calc.last.available
    \/ ~IsPdfOrImage(calc.last.file)
    \/ IsSome(calc.last.parse) /\ ~LastResult.success
    \/ calc.last.caught

\* C36: content_process calls extract_content exactly once and returns its
\* result when SmolDocling is selected without its dependencies, the file
\* is not a PDF or image, parse_file failed or the SmolDocling branch
\* raised; it does not call extract_content only when parse_file was
\* called and returned success = True.
C36_FallbackToContentCore ==
    (calc.op = "docling" /\ calc.last.op = "content_process") =>
        /\ calc.last.extract_calls \in {0, 1}
        /\ NoSmolDoclingResult =>
              /\ calc.last.extract_calls = 1
              /\ IsSome(calc.last.out) => Val(calc.last.out).extracted_by = "content_core"
        /\ calc.last.extract_calls = 0 =>
              /\ IsSome(calc.last.parse)
              /\ LastResult.success
              /\ Val(calc.last.out).extracted_by = "smol_docling"

\* parse_file failed inside the SmolDocling branch and extract_content ran
C36_Witness ==
    /\ calc.op = "docling"
    /\ calc.last.op = "content_process"
    /\ calc.last.selected
    /\ ~LastResult.success
    /\ calc.last.extract_calls = 1
    /\ IsSome(calc.last.out)

\* the parts of C37 that do not say on which call the model is loaded: a
\* parser nobody has parsed with is uninitialized and holds no processor
\* or model, _model is assigned at most once, an initialized parser is left
\* as it is, and a raising _initialize leaves _initialized False
LazyIdempotent ==
    /\ (calc.parse_calls = 0 /\ IsSome(calc.parser_instance)) =>
          /\ ~Val(calc.parser_instance).initialized
          /\ ~Val(calc.parser_instance).processor
          /\ ~Val(calc.parser_instance).model
    /\ calc.loads <= 1
    /\ Parsed =>
          /\ Val(calc.last.before).initialized =>
                /\ ~Val(calc.last.parse).loaded
                /\ Val(calc.last.parse).parser = Val(calc.last.before)
          /\ Val(calc.last.parse).init_raised =>
                ~Val(calc.last.parse).parser.initialized

\* C37 as stated: initialization is lazy and idempotent, and the model is
\* loaded on the first parse_file call.
C37_LoadedOnFirstCall ==
    calc.op = "docling" =>
        /\ LazyIdempotent
        /\ (Parsed /\ Val(calc.last.parse).loaded) => calc.parse_calls = 1

\* C37: initialization is lazy and idempotent, and the model is loaded on
\* the first parse_file call whose _initialize does not raise.
C37_LoadedOnFirstSuccess ==
    calc.op = "docling" =>
        /\ LazyIdempotent
        /\ (Parsed /\ Val(calc.last.parse).loaded) => calc.inits_ok = 1
        /\ (Parsed /\ ~Val(calc.last.parse).init_raised) =>
              Val(calc.last.parse).parser.model

\* _initialize raised in one call, loaded the model in the next, and the
\* third call found the parser initialized
C37_Witness ==
    /\ Parsed
    /\ calc.parse_calls = 3
    /\ calc.inits_ok = 2
    /\ calc.loads = 1
    /\ Val(calc.last.before).initialized

====
